---- MODULE Spec2Model ----
(***************************************************************************)
(* Verification model of the ingestion-and-notification core of the        *)
(* Twitter monitor bot.                                                    *)
(*                                                                         *)
(*   Spec         scheduler.py : Scheduler._process_user coroutines over   *)
(*                the tables monitored_users and sent_tweets, with the     *)
(*                coroutines of database.py that write those tables.       *)
(*   SpecCycle    scheduler.py : _process_user coroutines of several       *)
(*                accounts, the semaphore and the outcome of each fetch.   *)
(*   SpecFilter   scheduler.py and ai_scheduler.py : the selection of the  *)
(*                new tweets of a fetch, for every fetched list.           *)
(*   SpecQueue    rate_limiter.py : the urgent queue under any sequence    *)
(*                of queue_tweet, get_next_batch and clear_queue calls.    *)
(*   SpecRouter   ai_analyzer.py's score parser, tiered_discord_client.py  *)
(*                and the routing thresholds of ai_scheduler.py, applied   *)
(*                to every score the parser can return.                    *)
(*   SpecWebhook  tiered_discord_client.py : send_tweet with the history   *)
(*                of the webhooks that answered 404.                       *)
(*   SpecReply    telegram_bot.py : alerts, replies to them and restarts,  *)
(*                two replies being processed at a time.                   *)
(*   SpecAlerts   telegram_bot.py : several alerts of one process, with    *)
(*                one reply at a time.                                     *)
(*   SpecWhatsApp whatsapp_handler.py : the pending record of a phone and  *)
(*                the replies processed for it.                            *)
(*                                                                         *)
(* Modelling conventions                                                   *)
(*   - asyncio is cooperative: the code between two awaits is one atomic   *)
(*     action; every await that performs I/O ends an action, and other     *)
(*     coroutines run while it is pending.                                 *)
(*   - Every method is modelled as Python executes its text.  Calling an   *)
(*     async def method without await builds a coroutine object and runs   *)
(*     none of the method's statements; the object is true in a            *)
(*     condition.  scheduler.py and ai_scheduler.py call the coroutines    *)
(*     of database.py (is_tweet_sent, record_sent_tweet,                   *)
(*     update_user_last_tweet_id, set_user_inactive) this way.             *)
(*   - The coroutines of database.py themselves are actions of their own:  *)
(*     what they do when a caller awaits them.  So are the public methods  *)
(*     of the rate limiter, of the Telegram bot and of the WhatsApp        *)
(*     handler.                                                            *)
(*   - A name that no source file defines raises at its point of use       *)
(*     (NameError / AttributeError / KeyError) and is handled by the       *)
(*     enclosing try/except of the source.                                 *)
(*   - ai_analyzer.py (SyntaxError, line 112) and build_agent_enhanced.py  *)
(*     (IndentationError, line 569) do not compile.  telegram_bot.py       *)
(*     imports the build agent inside process_reply: the import raises in  *)
(*     every call and the enclosing except answers.  whatsapp_handler.py   *)
(*     imports it at module level; its methods are modelled by their text, *)
(*     the build agent being an outside party whose outcome is an input.   *)
(*     ai_scheduler.py imports both modules: nothing of AIScheduler runs,  *)
(*     its drainer included, and the model has no action for it.           *)
(*   - Tweet ids are decimal strings compared through int(); they are      *)
(*     modelled by the integers they denote.                               *)
(*   - settings is read once, at import.  Each specification draws the     *)
(*     variables of the environment its actions read; the others keep the  *)
(*     defaults of config.py.                                              *)
(***************************************************************************)
EXTENDS Integers, Sequences, FiniteSets, TLC

\* ------------------------------------------------------------------ bounds
MaxTweetId == 3
NumTasks == 2
MaxUrgent == 2       \* tweet ids of the urgent tweets stored for a phone
MaxQueued == 12      \* fresh tweet ids offered to the queue in SpecQueue
MaxAlerts == 2       \* alert ids one process hands out
MaxRaced == 1        \* of them, while two replies run at a time (SpecReply)
MaxRestarts == 1     \* process restarts in SpecReply
MaxFetched == 3      \* tweets one fetch returns in SpecFilter
MaxRawScore == 11    \* the numbers the model's answer carries as its score
\* settings.MAX_CONCURRENT_USERS (10 in config.py), scaled down so that the
\* accounts of SpecCycle outnumber it
MAX_CONCURRENT_USERS == 2

\* --------------------------------------------------------------- constants
\* last_tweet_id IS NULL (models.py: Optional[str] = None)
NONE == 0

\* rate_limiter.py: class attributes of NotificationRateLimiter
MAX_QUEUE_SIZE == 10
DefaultBatch == 3

\* tiered_discord_client.py: for attempt in range(3)
SendAttempts == 3

Accounts == {"alice"}
\* the monitored accounts of SpecCycle
GateAccounts == {"a1", "a2", "a3"}
\* response codes of the TwitterAPI.io endpoint (_make_request)
FetchStatus == {200, 401, 404, 429, 500}
\* how a _process_user coroutine ends: it returns (also after an exception
\* it swallowed), or it re-raises TwitterAuthError
Outcomes == {"returned", "TwitterAuthError"}
\* the range _parse_response clamps the score of a JSON answer into
MinScore == 1
MaxScore == 10
Scores == MinScore..MaxScore
\* the number an answer of the model carries as its score
RawScores == 0..MaxRawScore
\* the two branches of _parse_response: the answer is JSON, or it is not
ResponseKinds == {"json", "text"}
Tiers == 1..4
\* how await self.client.post(...) ends in send_tweet: with a response of
\* status 204, 404 or another one, with httpx.TimeoutException, or with
\* another exception
PostAnswers == {"204", "404", "500", "TimeoutException", "Exception"}
\* send_tweet coroutines of one TieredDiscordClient that run at the same time
Senders == {"s1", "s2"}
\* the scores of the sends of SpecWebhook: one of tier 1, of tier 2 and of
\* tier 3
WebhookScores == {3, 5, 7}
\* callback data the bot's keyboards carry (send_urgent_tweet,
\* request_build_requirements)
Actions == {"INTERESTING", "NOTHING", "BUILD", "BUILD_DEFAULT"}
AlertIds == 1..MaxAlerts
\* what enhanced_build_agent.build_project does: result["success"] True or
\* False, or it raises
BuildResults == {"success", "failure", "exception"}
\* the lowest and the highest urgent score
QueueScores == {8, 10}
\* the score of the tweets send_urgent_tweet is called with
AlertScores == {8}
\* what comes with a reply: a button press carries neither text nor chat
\* id, a message carries its chat id, with or without text
ReplyArgs ==
    {[user_text |-> FALSE, chat_id |-> FALSE],
     [user_text |-> FALSE, chat_id |-> TRUE],
     [user_text |-> TRUE, chat_id |-> TRUE]}
Tasks == 1..NumTasks
TweetIds == 1..MaxTweetId
Channels == {1}
\* coroutines of TelegramBot.process_reply that run at the same time
Handlers == {"h1", "h2"}
\* coroutines of WhatsAppActionHandler.process_reply that run at the same time
WaHandlers == {"w1", "w2"}
\* The environment as config.py and Database.__init__ read it.  USE_TELEGRAM
\* is a flag; DATABASE_URL is TRUE for a postgresql:// URL and FALSE for
\* SQLite; of the other strings what matters is whether they are set (TRUE)
\* or empty (FALSE).
SettingNames ==
    {"DATABASE_URL", "USE_TELEGRAM", "TELEGRAM_BOT_TOKEN", "TELEGRAM_CHAT_ID",
     "DISCORD_WEBHOOK_INTERESTING", "DISCORD_WEBHOOK_TIER2",
     "DISCORD_WEBHOOK_TIER3", "DISCORD_WEBHOOK_TIER4",
     "TWILIO_ACCOUNT_SID", "TWILIO_AUTH_TOKEN"}

VARIABLES
    settings      \* config.py: what the environment configures

VARIABLES
    users,        \* table monitored_users: username -> row
    sent_tweets,  \* table sent_tweets: sequence of rows, in insertion order
    timeline,     \* highest tweet id the source currently holds per account
    task,         \* _process_user coroutines: position and the row they hold
    db_last       \* the last coroutine of database.py a caller awaited

VARIABLES
    queue,                   \* NotificationRateLimiter.queue
    evicted,                 \* what the last queue call trimmed, if anything
    position,                \* what the last queue call returned (0: nothing)
    next_id,                 \* next fresh tweet id offered to the queue
    last_batch               \* what the last queue call handed out, if anything

VARIABLES

    last_result,             \* what TieredDiscordClient.send_tweet returned last
    last_route,              \* branch the routing thresholds give the last score
    last_rating,             \* what _parse_response made of the last answer
    webhook_gone,            \* tiers whose webhook has answered 404
    posted_after_404,        \* tiers POSTed to after their webhook answered 404
    sender,                  \* send_tweet coroutines: position, attempt, POSTs
    tiered_closed            \* the TieredDiscordClient's client has been closed

VARIABLES
    pending_tweets,          \* TelegramBot.pending_tweets, by alert id
    category_counters,       \* TelegramBot.category_counters, one category
    in_flight,               \* send_urgent_tweet coroutines, by the id they made
    handler,                 \* process_reply coroutines: position and locals
    awaiting,                \* alert ids request_build_requirements was run for
    lost,                    \* alert ids that were awaiting at a restart
    restarts,                \* restarts so far
    last_op                  \* the last call that ended: arguments, result, effects

VARIABLES
    sel_pc,                  \* _handle_existing_user's selection: idle, fetched, selected
    fetched,                 \* the list get_last_tweets returned, as the API ordered it
    sel_last_id,             \* int(user.last_tweet_id) of the account
    selected                 \* new_tweets after the filter and the sort

VARIABLES
    gate_users,              \* monitored_users rows of the accounts of SpecCycle
    gate_task,               \* per account, where its _process_user coroutine is
    gate_resp,               \* per account, HTTP status of its last fetch (0: none yet)
    gate_out,                \* per account, how its last coroutine ended
    permits                  \* value of Scheduler._semaphore

VARIABLES
    wa_pending,              \* whatsapp_handler.pending_tweets[YOUR_PHONE_NUMBER]
    wa_handler,              \* process_reply coroutines of whatsapp_handler
    wa_closed,               \* whatsapp_handler.discord.client has been closed
    wa_last                  \* the last reply whatsapp_handler finished

configVars == <<settings>>

schedVars == <<users, sent_tweets, timeline, task, db_last>>

limiterVars == <<queue, evicted, position, next_id, last_batch>>

routerVars == <<last_result, last_route, last_rating,
                webhook_gone, posted_after_404, sender, tiered_closed>>

replyVars == <<pending_tweets, category_counters, in_flight, handler,
               awaiting, lost, restarts, last_op>>

filterVars == <<sel_pc, fetched, sel_last_id, selected>>

cycleVars == <<gate_users, gate_task, gate_resp, gate_out, permits>>

waVars == <<wa_pending, wa_handler, wa_closed, wa_last>>

nonSchedVars == <<configVars, limiterVars, routerVars, replyVars, filterVars,
                  cycleVars, waVars>>

nonLimiterVars == <<configVars, schedVars, routerVars, replyVars, filterVars,
                    cycleVars, waVars>>

nonRouterVars == <<configVars, schedVars, limiterVars, replyVars, filterVars,
                   cycleVars, waVars>>

nonReplyVars == <<configVars, schedVars, limiterVars, routerVars, filterVars,
                  cycleVars, waVars>>

nonFilterVars == <<configVars, schedVars, limiterVars, routerVars, replyVars,
                   cycleVars, waVars>>

nonCycleVars == <<configVars, schedVars, limiterVars, routerVars, replyVars,
                  filterVars, waVars>>

nonWaVars == <<configVars, schedVars, limiterVars, routerVars, replyVars,
               filterVars, cycleVars>>

vars == <<settings,
          users, sent_tweets, timeline, task, db_last,
          queue, evicted, position, next_id, last_batch,
          last_result, last_route, last_rating, webhook_gone,
          posted_after_404, sender, tiered_closed,
          pending_tweets, category_counters, in_flight, handler, awaiting,
          lost, restarts, last_op,
          sel_pc, fetched, sel_last_id, selected,
          gate_users, gate_task, gate_resp, gate_out, permits,
          wa_pending, wa_handler, wa_closed, wa_last>>

\* ------------------------------------------------------ pure helper operators
Max(a, b) == IF a >= b THEN a ELSE b

Min(a, b) == IF a <= b THEN a ELSE b

\* max(tweets, key=lambda t: int(t.id))
SetMax(S) == CHOOSE x \in S : \A y \in S : y <= x

\* ------------------- scheduler.py and ai_scheduler.py: selecting new tweets
\* The moment a fetch is parsed at, later than every posting time.
Now == MaxTweetId + 1

\* Posting times, and the moment of parsing.
Times == 1..Now

\* twitter_client.py, _parse_single_tweet: created_at is
\* datetime.fromisoformat(...) of the field the API gives, a datetime with
\* a UTC offset (aware) or without one (naive), as the string has it; or,
\* the field missing or not ISO, datetime.utcnow() at the moment the
\* tweet is parsed, a naive datetime.
Datetimes == [aware : BOOLEAN, at : Times]

\* What the API gives as created_at: an ISO string with "Z" or an offset,
\* an ISO string without, or nothing that parses.
CreatedAtKinds == {"offset", "naive", "missing"}

\* _parse_single_tweet, lines 170-176, for a tweet posted at time posted
parse_created_at(kind, posted) ==
    CASE kind = "offset" -> [aware |-> TRUE, at |-> posted]
      [] kind = "naive" -> [aware |-> FALSE, at |-> posted]
      [] OTHER -> [aware |-> FALSE, at |-> Now]

\* A fetched tweet: int(tweet.id) and tweet.created_at
FetchedTweets == [id : TweetIds, created_at : Datetimes]

RECURSIVE SeqsUpTo(_, _)
SeqsUpTo(S, n) ==
    IF n = 0 THEN {<<>>}
    ELSE LET shorter == SeqsUpTo(S, n - 1)
         IN shorter \cup {Append(q, x) : q \in {r \in shorter : Len(r) = n - 1},
                                          x \in S}

\* The lists a fetch can return: the API gives the tweets in any order and
\* with any created_at.
FetchedLists == SeqsUpTo(FetchedTweets, MaxFetched)

\* [t for t in tweets if int(t.id) > last_id]
filter_new(tweets, last_id) ==
    SelectSeq(tweets, LAMBDA t : t.id > last_id)

\* list.sort is stable: t goes after the entries that are not later than it
RECURSIVE insert_by_created_at(_, _)
insert_by_created_at(sorted, t) ==
    IF sorted = <<>> THEN <<t>>
    ELSE IF Head(sorted).created_at.at <= t.created_at.at
         THEN <<Head(sorted)>> \o insert_by_created_at(Tail(sorted), t)
         ELSE <<t>> \o sorted

\* datetime.__lt__ between a datetime with an offset and one without raises
\* TypeError; a sort of a list that holds both kinds compares two of them.
sort_raises(tweets) ==
    \E i, j \in 1..Len(tweets) :
        tweets[i].created_at.aware # tweets[j].created_at.aware

\* new_tweets.sort(key=lambda t: t.created_at), the datetimes of one kind
RECURSIVE sort_by_created_at(_)
sort_by_created_at(tweets) ==
    IF tweets = <<>> THEN <<>>
    ELSE insert_by_created_at(
             sort_by_created_at(SubSeq(tweets, 1, Len(tweets) - 1)),
             tweets[Len(tweets)])

\* _handle_existing_user up to the for loop: new_tweets as the loop
\* iterates over it, or the TypeError of the sort, which leaves the handler
\* before the loop and ends _process_user in its except Exception branch.
new_tweets(tweets, last_id) ==
    IF sort_raises(filter_new(tweets, last_id))
    THEN [raised |-> TRUE, tweets |-> <<>>]
    ELSE [raised |-> FALSE,
          tweets |-> sort_by_created_at(filter_new(tweets, last_id))]

\* tweets = await twitter.get_last_tweets(user.username) returned a
\* non-empty list for an account whose watermark is last_id.
FetchReturns(tweets, last_id) ==
    /\ sel_pc = "idle"
    /\ tweets # <<>>
    /\ sel_pc' = "fetched"
    /\ fetched' = tweets
    /\ sel_last_id' = last_id
    /\ selected' = <<>>
    /\ UNCHANGED nonFilterVars

\* _handle_existing_user up to the for loop, or to the exception that
\* ends it.
SelectNewTweets ==
    /\ sel_pc = "fetched"
    /\ sel_pc' = IF new_tweets(fetched, sel_last_id).raised
                 THEN "raised" ELSE "selected"
    /\ selected' = new_tweets(fetched, sel_last_id).tweets
    /\ UNCHANGED <<fetched, sel_last_id>>
    /\ UNCHANGED nonFilterVars

InitFilter ==
    /\ sel_pc = "idle"
    /\ fetched = <<>>
    /\ sel_last_id = NONE
    /\ selected = <<>>

\* ---------------------------------------------- coroutines that are not awaited
\* Variant of not_awaited in which the call runs the coroutine to its end.
awaited(before, after) == after

\* db.X(...) without await, X an async def: the call returns a coroutine
\* object and no statement of X runs; the table is as it was before.
not_awaited(before, after) == before

\* if db.is_tweet_sent(...): the condition tests the coroutine object, which
\* is true whatever the coroutine would have returned.
coroutine_truth(result) == TRUE

\* ------------------------------------------------------------ database.py
NoDbOp == [op |-> "none", raised |-> FALSE]

\* SELECT 1 FROM sent_tweets WHERE tweet_id = ? AND channel_id = ?
is_tweet_sent(st, tweet_id, channel_id) ==
    \E i \in 1..Len(st) :
        st[i].tweet_id = tweet_id /\ st[i].channel_id = channel_id

\* UNIQUE(tweet_id, channel_id): the INSERT raises an integrity error
record_sent_tweet_raises(st, tweet_id, channel_id) ==
    is_tweet_sent(st, tweet_id, channel_id)

\* Variant of record_sent_tweet on a table without the UNIQUE constraint.
record_sent_tweet_no_unique(st, tweet_id, username, channel_id) ==
    Append(st, [tweet_id |-> tweet_id, username |-> username,
                channel_id |-> channel_id])

\* INSERT INTO sent_tweets (...) VALUES (...)
record_sent_tweet(st, tweet_id, username, channel_id) ==
    IF record_sent_tweet_raises(st, tweet_id, channel_id)
    THEN st
    ELSE Append(st, [tweet_id |-> tweet_id, username |-> username,
                     channel_id |-> channel_id])

\* UPDATE monitored_users SET last_tweet_id = ? WHERE username = ?
update_user_last_tweet(u, username, tweet_id) ==
    IF username \in DOMAIN u
    THEN [u EXCEPT ![username].last_tweet_id = tweet_id]
    ELSE u

\* UPDATE monitored_users SET is_active = FALSE WHERE username = ?
set_user_inactive(u, username) ==
    IF username \in DOMAIN u
    THEN [u EXCEPT ![username].is_active = FALSE]
    ELSE u

\* DELETE FROM monitored_users WHERE username = ?
remove_user(u, username) ==
    [a \in DOMAIN u \ {username} |-> u[a]]

\* Database.__init__: self.is_postgres
is_postgres == settings["DATABASE_URL"]

\* username TEXT UNIQUE NOT NULL: the INSERT raises an integrity error
add_user_raises(u, username) == username \in DOMAIN u

\* INSERT INTO monitored_users (username, channel_id, last_tweet_id)
\* VALUES (?, ?, ?) RETURNING id, run through Database.fetchone: asyncpg
\* commits each statement; the sqlite branch of fetchone closes its
\* connection without a commit and the row is rolled back.
add_user(u, username, channel_id, last_tweet_id) ==
    IF add_user_raises(u, username) \/ ~is_postgres THEN u
    ELSE [a \in DOMAIN u \cup {username} |->
            IF a = username
            THEN [channel_id |-> channel_id, last_tweet_id |-> last_tweet_id,
                  is_active |-> TRUE]
            ELSE u[a]]

\* Alias for update_user_last_tweet
update_user_last_tweet_id(u, username, tweet_id) ==
    update_user_last_tweet(u, username, tweet_id)

\* await db.record_sent_tweet(tweet_id, username, channel_id)
RecordSentTweet(tweet_id, username, channel_id) ==
    /\ sent_tweets' = record_sent_tweet(sent_tweets, tweet_id, username,
                                        channel_id)
    /\ db_last' = [op |-> "record_sent_tweet",
                   raised |-> record_sent_tweet_raises(sent_tweets, tweet_id,
                                                       channel_id)]
    /\ UNCHANGED <<users, timeline, task, nonSchedVars>>

\* await db.update_user_last_tweet(username, tweet_id)
UpdateUserLastTweet(username, tweet_id) ==
    /\ users' = update_user_last_tweet(users, username, tweet_id)
    /\ db_last' = [op |-> "update_user_last_tweet", raised |-> FALSE]
    /\ UNCHANGED <<sent_tweets, timeline, task, nonSchedVars>>

\* await db.set_user_inactive(username)
SetUserInactive(username) ==
    /\ users' = set_user_inactive(users, username)
    /\ db_last' = [op |-> "set_user_inactive", raised |-> FALSE]
    /\ UNCHANGED <<sent_tweets, timeline, task, nonSchedVars>>

\* db.remove_user(username) where no event loop runs (main.py, the
\* "user remove" command): run_until_complete(_remove()).  Inside a running
\* loop (api.py) the method returns False and runs no statement.
RemoveUser(username) ==
    /\ users' = remove_user(users, username)
    /\ db_last' = [op |-> "remove_user", raised |-> FALSE]
    /\ UNCHANGED <<sent_tweets, timeline, task, nonSchedVars>>

\* db.add_user(username, channel_id, last_tweet_id) where no event loop
\* runs.  Inside a running loop (api.py, and main.py's "user add", which
\* calls it from asyncio.run) the method returns 0 and runs no statement.
AddUser(username, channel_id, last_tweet_id) ==
    /\ users' = add_user(users, username, channel_id, last_tweet_id)
    /\ db_last' = [op |-> "add_user",
                   raised |-> add_user_raises(users, username)]
    /\ UNCHANGED <<sent_tweets, timeline, task, nonSchedVars>>

\* DELETE FROM sent_tweets WHERE tweet_id = ? AND channel_id = ?
delete_sent_tweet(st, tweet_id, channel_id) ==
    SelectSeq(st, LAMBDA r : ~(r.tweet_id = tweet_id
                               /\ r.channel_id = channel_id))

\* The statements db.execute(query, *args) is given: an INSERT, an UPDATE
\* of the three columns or a DELETE of a row of monitored_users, an INSERT
\* or a DELETE of a row of sent_tweets.
Statements ==
    [kind : {"INSERT INTO monitored_users"}, username : Accounts,
     channel_id : Channels, last_tweet_id : TweetIds \cup {NONE}]
    \cup [kind : {"UPDATE monitored_users"}, username : Accounts,
          channel_id : Channels, last_tweet_id : TweetIds \cup {NONE},
          is_active : BOOLEAN]
    \cup [kind : {"DELETE FROM monitored_users"}, username : Accounts]
    \cup [kind : {"INSERT INTO sent_tweets"}, tweet_id : TweetIds,
          username : Accounts, channel_id : Channels]
    \cup [kind : {"DELETE FROM sent_tweets"}, tweet_id : TweetIds,
          channel_id : Channels]

\* Database.execute: the statement raises an integrity error, for a
\* username (UNIQUE) or a (tweet_id, channel_id) pair (UNIQUE) that is
\* there; nothing is committed then.
execute_raises(u, st, stmt) ==
    \/ /\ stmt.kind = "INSERT INTO monitored_users"
       /\ stmt.username \in DOMAIN u
    \/ /\ stmt.kind = "INSERT INTO sent_tweets"
       /\ is_tweet_sent(st, stmt.tweet_id, stmt.channel_id)

\* Database.execute: monitored_users after the statement, committed on
\* either database
execute_users(u, stmt) ==
    CASE stmt.kind = "INSERT INTO monitored_users" ->
            [a \in DOMAIN u \cup {stmt.username} |->
                IF a = stmt.username
                THEN [channel_id |-> stmt.channel_id,
                      last_tweet_id |-> stmt.last_tweet_id,
                      is_active |-> TRUE]
                ELSE u[a]]
      [] stmt.kind = "UPDATE monitored_users" /\ stmt.username \in DOMAIN u ->
            [u EXCEPT ![stmt.username] =
                [channel_id |-> stmt.channel_id,
                 last_tweet_id |-> stmt.last_tweet_id,
                 is_active |-> stmt.is_active]]
      [] stmt.kind = "DELETE FROM monitored_users" ->
            remove_user(u, stmt.username)
      [] OTHER -> u

\* Database.execute: sent_tweets after the statement
execute_sent_tweets(st, stmt) ==
    CASE stmt.kind = "INSERT INTO sent_tweets" ->
            Append(st, [tweet_id |-> stmt.tweet_id,
                        username |-> stmt.username,
                        channel_id |-> stmt.channel_id])
      [] stmt.kind = "DELETE FROM sent_tweets" ->
            delete_sent_tweet(st, stmt.tweet_id, stmt.channel_id)
      [] OTHER -> st

\* await db.execute(query, *args)
Execute(stmt) ==
    /\ users' = IF execute_raises(users, sent_tweets, stmt) THEN users
                ELSE execute_users(users, stmt)
    /\ sent_tweets' = IF execute_raises(users, sent_tweets, stmt)
                      THEN sent_tweets
                      ELSE execute_sent_tweets(sent_tweets, stmt)
    /\ db_last' = [op |-> "execute",
                   raised |-> execute_raises(users, sent_tweets, stmt)]
    /\ UNCHANGED <<timeline, task, nonSchedVars>>

\* ------------------------------------------------------------ scheduler.py
IdleTask == [pc |-> "idle", username |-> "alice", channel_id |-> 0,
             last_id |-> NONE]

\* tweets = await twitter.get_last_tweets(username): the n tweets of the
\* timeline, the newest first, as _parse_tweets builds them.  The
\* created_at of a tweet is an ISO string with an offset, one without, or
\* missing; the posting time it carries grows with the id.
parse_tweets(n, dated) ==
    [i \in 1..n |-> [id |-> n + 1 - i,
                     created_at |-> parse_created_at(dated[n + 1 - i],
                                                     n + 1 - i)]]

\* the ids of a list of tweets, in its order
Ids(tweets) == [i \in 1..Len(tweets) |-> tweets[i].id]

\* The for loop of _handle_existing_user: newest_id moves over every tweet
\* visited; a tweet for which the is_tweet_sent condition is true is skipped
\* (continue), the first other tweet is the one to POST.
RECURSIVE SkipSent(_, _, _, _)
SkipSent(rest, st, channel_id, newest_id) ==
    IF rest = <<>> THEN [rest |-> <<>>, newest_id |-> newest_id]
    ELSE LET n == Max(newest_id, Head(rest)) IN
         IF coroutine_truth(is_tweet_sent(st, Head(rest), channel_id))
         THEN SkipSent(Tail(rest), st, channel_id, n)
         ELSE [rest |-> rest, newest_id |-> n]

\* The statements after the loop (scheduler.py 162-165): the watermark
\* update is called without await.
after_loop(u, username, last_id, newest_id) ==
    IF newest_id > last_id
    THEN not_awaited(u, update_user_last_tweet_id(u, username, newest_id))
    ELSE u

\* _handle_new_user: newest = max(tweets); db.update_user_last_tweet_id is
\* called without await.
handle_new_user(u, username, tweets) ==
    not_awaited(u, update_user_last_tweet_id(u, username, SetMax(tweets)))

\* _process_user(user, discord, twitter) is called with the row of account
\* a as a UserWithChannel; the coroutine holds the row as it was read
\* (the model is frozen) and awaits twitter.get_last_tweets.
StartTask(t, a) ==
    /\ task[t].pc = "idle"
    /\ a \in DOMAIN users
    /\ task' = [task EXCEPT ![t] = [pc |-> "fetch", username |-> a,
                                    channel_id |-> users[a].channel_id,
                                    last_id |-> users[a].last_tweet_id]]
    /\ UNCHANGED <<users, sent_tweets, timeline, db_last, nonSchedVars>>

\* _process_user: tweets = await twitter.get_last_tweets(...) returned a
\* non-empty list for an account without a watermark: _handle_new_user.
FetchNewUser(t) ==
    LET tk == task[t]
        tweets == 1..timeline[tk.username]
    IN /\ tk.pc = "fetch"
       /\ tweets # {}
       /\ tk.last_id = NONE
       /\ users' = handle_new_user(users, tk.username, tweets)
       /\ task' = [task EXCEPT ![t] = IdleTask]
       /\ UNCHANGED <<sent_tweets, timeline, db_last, nonSchedVars>>

\* _handle_existing_user from the filter to its end, on the list the fetch
\* returned: it returns when nothing is new, the TypeError of the sort
\* leaves it, or the loop runs and the statements after it.
handle_existing_user(u, st, username, channel_id, last_id, tweets) ==
    LET nt == new_tweets(tweets, last_id)
        r == SkipSent(Ids(nt.tweets), st, channel_id, last_id)
    IN IF nt.raised \/ nt.tweets = <<>> THEN u
       ELSE after_loop(u, username, last_id, r.newest_id)

\* _process_user: the fetch returned a non-empty list for an account with a
\* watermark: _handle_existing_user.  Every new tweet is skipped by the
\* is_tweet_sent condition, so the loop reaches no await and the handler
\* runs to its end in this step.  dated gives the created_at of the tweets
\* of the timeline; ids the timeline has not reached have none.
FetchExistingUser(t, dated) ==
    LET tk == task[t]
        tweets == parse_tweets(timeline[tk.username], dated)
        nt == new_tweets(tweets, tk.last_id)
    IN /\ tk.pc = "fetch"
       /\ tweets # <<>>
       /\ tk.last_id # NONE
       /\ \A i \in TweetIds : i > timeline[tk.username] => dated[i] = "missing"
       /\ SkipSent(Ids(nt.tweets), sent_tweets, tk.channel_id,
                   tk.last_id).rest = <<>>
       /\ users' = handle_existing_user(users, sent_tweets, tk.username,
                                        tk.channel_id, tk.last_id, tweets)
       /\ task' = [task EXCEPT ![t] = IdleTask]
       /\ UNCHANGED <<sent_tweets, timeline, db_last, nonSchedVars>>

\* _process_user: the fetch returned an empty list (no tweets, a 404 or a
\* TwitterAPIError swallowed by get_last_tweets) or raised
\* TwitterRateLimitError: the coroutine ends without touching the database.
FetchNothing(t) ==
    /\ task[t].pc = "fetch"
    /\ task' = [task EXCEPT ![t] = IdleTask]
    /\ UNCHANGED <<users, sent_tweets, timeline, db_last, nonSchedVars>>

\* The monitored account posts a tweet (environment).
Post(a) ==
    /\ timeline[a] < MaxTweetId
    /\ timeline' = [timeline EXCEPT ![a] = @ + 1]
    /\ UNCHANGED <<users, sent_tweets, task, db_last, nonSchedVars>>

InitSched ==
    /\ users = [a \in Accounts |->
                  [channel_id |-> 1, last_tweet_id |-> NONE, is_active |-> TRUE]]
    /\ sent_tweets = <<>>
    /\ timeline = [a \in Accounts |-> 0]
    /\ task = [t \in Tasks |-> IdleTask]
    /\ db_last = NoDbOp

\* --------------------------------------------------------- rate_limiter.py
NoEntry == [tweet_id |-> 0, score |-> 0]

NoEviction == [removed |-> NoEntry, before |-> <<>>]

\* Variant of queue_tweet's check that finds no duplicate.
AlreadyQueuedNever(q, tweet_id) == FALSE

\* queue_tweet: "Check for duplicates"
AlreadyQueued(q, tweet_id) ==
    \E i \in 1..Len(q) : q[i].tweet_id = tweet_id

\* queue_tweet: the list after self.queue.append(queued)
Appended(q, tweet_id, score) ==
    Append(q, [tweet_id |-> tweet_id, score |-> score])

\* Variant of queue_tweet that never trims.
queue_tweet_no_trim(q, tweet_id, score) ==
    IF AlreadyQueued(q, tweet_id) THEN q ELSE Appended(q, tweet_id, score)

\* queue_tweet: the queue it leaves
queue_tweet(q, tweet_id, score) ==
    IF AlreadyQueued(q, tweet_id) THEN q
    ELSE IF Len(Appended(q, tweet_id, score)) > MAX_QUEUE_SIZE
         THEN Tail(Appended(q, tweet_id, score))
         ELSE Appended(q, tweet_id, score)

\* queue_tweet: its return value (-1 for a duplicate, else len after append)
queue_tweet_position(q, tweet_id) ==
    IF AlreadyQueued(q, tweet_id) THEN -1 ELSE Len(q) + 1

\* queue_tweet: what the trim removed, with the list it was removed from
queue_tweet_removed(q, tweet_id, score) ==
    LET before == Appended(q, tweet_id, score)
        after == queue_tweet(q, tweet_id, score)
        gone == {e \in {before[i] : i \in 1..Len(before)} :
                    \A j \in 1..Len(after) : after[j] # e}
    IN IF ~AlreadyQueued(q, tweet_id) /\ Len(before) > MAX_QUEUE_SIZE /\ gone # {}
       THEN [removed |-> CHOOSE e \in gone : TRUE, before |-> before]
       ELSE NoEviction

\* get_next_batch: batch = self.queue[:max_size]
get_next_batch(q, max_size) ==
    SubSeq(q, 1, IF Len(q) < max_size THEN Len(q) ELSE max_size)

\* get_next_batch: self.queue = self.queue[max_size:]
after_next_batch(q, max_size) ==
    SubSeq(q, (IF Len(q) < max_size THEN Len(q) ELSE max_size) + 1, Len(q))


\* queue_tweet called with a fresh tweet id or with the one offered last.
QueueTweet(tweet_id, score) ==
    /\ tweet_id >= 1
    /\ tweet_id <= MaxQueued
    /\ queue' = queue_tweet(queue, tweet_id, score)
    /\ position' = queue_tweet_position(queue, tweet_id)
    /\ evicted' = queue_tweet_removed(queue, tweet_id, score)
    /\ next_id' = IF tweet_id = next_id THEN next_id + 1 ELSE next_id
    /\ last_batch' = <<>>
    /\ UNCHANGED nonLimiterVars

\* get_next_batch(max_size=3)
GetNextBatch ==
    /\ queue # <<>>
    /\ queue' = after_next_batch(queue, DefaultBatch)
    /\ evicted' = NoEviction
    /\ position' = 0
    /\ last_batch' = get_next_batch(queue, DefaultBatch)
    /\ UNCHANGED next_id
    /\ UNCHANGED nonLimiterVars

\* clear_queue
ClearQueue ==
    /\ queue # <<>>
    /\ queue' = <<>>
    /\ evicted' = NoEviction
    /\ position' = 0
    /\ last_batch' = <<>>
    /\ UNCHANGED next_id
    /\ UNCHANGED nonLimiterVars

InitLimiter ==
    /\ queue = <<>>
    /\ evicted = NoEviction
    /\ position = 0
    /\ next_id = 1
    /\ last_batch = <<>>

\* ------------------------------------------------------------ ai_analyzer.py
\* the answer carries no score: data.get("score", 5), or no match of the
\* pattern in the text
NoScore == -1
DefaultScore == 5

\* _parse_response: the score of the TweetRating.  The JSON branch clamps
\* into 1..10; the fallback for an answer that is not JSON takes the number
\* after "score:" as it stands.
parse_response(kind, raw) ==
    IF raw = NoScore THEN DefaultScore
    ELSE IF kind = "json" THEN Max(MinScore, Min(MaxScore, raw))
    ELSE raw

\* the scores a TweetRating can carry
ParsedScores ==
    {parse_response(k, r) : k \in ResponseKinds, r \in RawScores \cup {NoScore}}

\* ------------------------------------------------ tiered_discord_client.py
\* Variant of get_tier_from_score whose third threshold repeats the second.
get_tier_from_score_typo(score) ==
    IF score <= 3 THEN 1
    ELSE IF score <= 6 THEN 2
    ELSE IF score <= 6 THEN 3
    ELSE 4

\* get_tier_from_score: 1 filter, 2 standard, 3 premium, 4 urgent
get_tier_from_score(score) ==
    IF score <= 3 THEN 1
    ELSE IF score <= 6 THEN 2
    ELSE IF score <= 8 THEN 3
    ELSE 4

\* TieredDiscordClient.__init__: self.tier_webhooks.get(tier) is set
tier_webhooks(tier) ==
    \/ tier = 2 /\ settings["DISCORD_WEBHOOK_TIER2"]
    \/ tier = 3 /\ settings["DISCORD_WEBHOOK_TIER3"]
    \/ tier = 4 /\ settings["DISCORD_WEBHOOK_TIER4"]

\* send_tweet: the dict it returns, with the POSTs the call has made
send_tweet_result(score, sent, error, posts) ==
    [score |-> score, sent |-> sent, tier |-> get_tier_from_score(score),
     error |-> error, posts |-> posts]

\* ai_scheduler.py, "Route tweets based on AI score": the branch the
\* thresholds give a score
RouteOf(score) ==
    IF score < 2 THEN "filter"
    ELSE IF score < 8 THEN "discord"
    ELSE "urgent"

\* Where the thresholds put a rated tweet: the branch, and inside the
\* discord branch the tier send_tweet picks.
ChannelOf(score) ==
    IF RouteOf(score) = "discord" THEN get_tier_from_score(score)
    ELSE IF RouteOf(score) = "filter" THEN 1
    ELSE 4

NoRating == [kind |-> "none", score |-> NoScore]

NoRoute == [score |-> NoScore, route |-> "none", channel |-> 0]

IdleSender == [pc |-> "idle", score |-> NoScore, attempt |-> 0, posts |-> 0]

\* AIAnalyzer._parse_response(content, tweet)
ParseResponse(kind, raw) ==
    /\ last_rating' = [kind |-> kind, score |-> parse_response(kind, raw)]
    /\ last_route' = NoRoute
    /\ UNCHANGED <<last_result, sender, tiered_closed>>
    /\ UNCHANGED nonRouterVars

\* The routing thresholds applied to the score of the last rating.
RouteTweet ==
    /\ last_rating # NoRating
    /\ last_route = NoRoute
    /\ last_route' = [score |-> last_rating.score,
                      route |-> RouteOf(last_rating.score),
                      channel |-> ChannelOf(last_rating.score)]
    /\ UNCHANGED <<last_rating, last_result, sender, tiered_closed>>
    /\ UNCHANGED nonRouterVars

\* A send_tweet coroutine returns.
SendTweetReturns(s, sent, error) ==
    /\ last_result' = send_tweet_result(sender[s].score, sent, error,
                                        sender[s].posts)
    /\ sender' = [sender EXCEPT ![s] = IdleSender]

\* TieredDiscordClient.send_tweet(username, tweet, rating) from its entry
\* to the first await self.client.post, or to its return: a tier 1 score
\* and a tier without a webhook return before the loop; on a closed client
\* post raises RuntimeError before it sends, which except Exception turns
\* into the result.
SendTweetStart(s, score) ==
    /\ sender[s].pc = "idle"
    /\ IF get_tier_from_score(score) = 1
       THEN /\ last_result' = send_tweet_result(score, FALSE, "None", 0)
            /\ UNCHANGED sender
       ELSE IF ~tier_webhooks(get_tier_from_score(score))
       THEN /\ last_result' = send_tweet_result(score, FALSE,
                                                "No webhook configured", 0)
            /\ UNCHANGED sender
       ELSE IF tiered_closed
       THEN /\ last_result' = send_tweet_result(score, FALSE, "Exception", 0)
            /\ UNCHANGED sender
       ELSE /\ sender' = [sender EXCEPT ![s] = [pc |-> "posting",
                                                score |-> score,
                                                attempt |-> 0, posts |-> 1]]
            /\ UNCHANGED last_result
    /\ UNCHANGED <<last_rating, last_route, tiered_closed>>
    /\ UNCHANGED nonRouterVars

\* await self.client.post(...) of one attempt ends: the webhook answered
\* with a status, or the request raised.  After a status other than 204
\* and 404, and after a timeout, an attempt that is not the last goes to
\* await asyncio.sleep(1).
SendTweetAnswered(s, answer) ==
    /\ sender[s].pc = "posting"
    /\ CASE answer = "204" -> SendTweetReturns(s, TRUE, "None")
         [] answer = "404" -> SendTweetReturns(s, FALSE, "Webhook 404")
         [] answer \in {"500", "TimeoutException"}
            /\ sender[s].attempt < SendAttempts - 1 ->
               /\ sender' = [sender EXCEPT ![s].pc = "sleeping"]
               /\ UNCHANGED last_result
         [] answer = "500" /\ sender[s].attempt = SendAttempts - 1 ->
               SendTweetReturns(s, FALSE, "HTTP 500")
         [] answer = "TimeoutException"
            /\ sender[s].attempt = SendAttempts - 1 ->
               SendTweetReturns(s, FALSE, "Timeout")
         [] OTHER -> SendTweetReturns(s, FALSE, "Exception")
    /\ UNCHANGED <<last_rating, last_route, tiered_closed>>
    /\ UNCHANGED nonRouterVars

\* asyncio.sleep(1) ends and the loop makes its next attempt.
SendTweetWakes(s) ==
    /\ sender[s].pc = "sleeping"
    /\ IF tiered_closed
       THEN SendTweetReturns(s, FALSE, "Exception")
       ELSE /\ sender' = [sender EXCEPT ![s].pc = "posting",
                                        ![s].attempt = @ + 1,
                                        ![s].posts = @ + 1]
            /\ UNCHANGED last_result
    /\ UNCHANGED <<last_rating, last_route, tiered_closed>>
    /\ UNCHANGED nonRouterVars

\* TieredDiscordClient.__aexit__: await self.client.aclose()
TieredAexit ==
    /\ ~tiered_closed
    /\ tiered_closed' = TRUE
    /\ UNCHANGED <<last_rating, last_route, last_result, sender>>
    /\ UNCHANGED nonRouterVars

\* The webhooks that have answered 404 (a POST ended by "Webhook 404"), and
\* the ones POSTed to afterwards (the senders that issued a POST in this step).
NoteWebhook ==
    /\ webhook_gone' =
          webhook_gone
             \cup {get_tier_from_score(sender[s].score) :
                      s \in {x \in Senders :
                                /\ sender[x].pc = "posting"
                                /\ sender'[x].pc = "idle"
                                /\ last_result'.error = "Webhook 404"}}
    /\ posted_after_404' =
          posted_after_404
             \cup ({get_tier_from_score(sender'[s].score) :
                       s \in {x \in Senders :
                                 sender'[x].posts > sender[x].posts}}
                      \cap webhook_gone)

InitRouter ==
    /\ last_result = [score |-> NoScore, sent |-> FALSE, tier |-> 0,
                      error |-> "None", posts |-> 0]
    /\ last_route = NoRoute
    /\ last_rating = NoRating
    /\ webhook_gone = {}
    /\ posted_after_404 = {}
    /\ sender = [s \in Senders |-> IdleSender]
    /\ tiered_closed = FALSE
\* ----------------------------------------------------------- telegram_bot.py
\* self.pending_tweets.get(alert_id, {}) for a key that is not there
Absent == [status |-> "absent", score |-> 0]

NoOp ==
    [op |-> "none", action |-> "none", alert_id |-> 0, user_text |-> FALSE,
     chat_id |-> FALSE, before |-> Absent,
     outcome |-> "none", forwarded |-> FALSE, prompted |-> FALSE,
     built |-> FALSE]

\* no send_urgent_tweet coroutine holds the alert id
NoSend == [pc |-> "none", score |-> 0, sent |-> FALSE]

IdleHandler ==
    [pc |-> "idle", action |-> "none", alert_id |-> 0, user_text |-> FALSE,
     chat_id |-> FALSE, before |-> Absent]

\* TelegramBot.__init__:
\*   self.enabled = settings.USE_TELEGRAM and bool(self.token and self.chat_id)
enabled ==
    /\ settings["USE_TELEGRAM"]
    /\ settings["TELEGRAM_BOT_TOKEN"]
    /\ settings["TELEGRAM_CHAT_ID"]

\* TelegramBot.__init__: self.base_url is not None (if self.token)
base_url == settings["TELEGRAM_BOT_TOKEN"]

\* Variant of generate_tweet_id that sets the counter of the category to 1
\* (= 1 for += 1).
generate_tweet_id_reset(counter) == 1

\* _generate_tweet_id: self.category_counters[category] += 1; the id is the
\* category with the new count.
generate_tweet_id(counter) == counter + 1

\* Variant of process_reply_branch whose last elif is an else: an action it
\* does not know is handled as NOTHING.
process_reply_branch_else(action, user_text, chat_id) ==
    IF user_text /\ chat_id THEN "raise"
    ELSE IF action = "INTERESTING" THEN "interesting"
    ELSE IF action = "BUILD" THEN (IF chat_id THEN "requirements" ELSE "legacy")
    ELSE "nothing"

\* process_reply: the branch it takes.  db.get_pending_build is defined
\* nowhere, so the requirements check raises AttributeError.
process_reply_branch(action, user_text, chat_id) ==
    IF user_text /\ chat_id THEN "raise"
    ELSE IF action = "INTERESTING" THEN "interesting"
    ELSE IF action = "NOTHING" THEN "nothing"
    ELSE IF action = "BUILD" THEN (IF chat_id THEN "requirements" ELSE "legacy")
    ELSE "unknown"

\* if alert_id in self.pending_tweets:
\*     self.pending_tweets[alert_id]["status"] = status
set_status(p, alert_id, status) ==
    IF p[alert_id] # Absent THEN [p EXCEPT ![alert_id].status = status] ELSE p

\* Variant of store_alert that stores the record whatever Telegram answers.
store_alert_always(p, alert_id, score, ok) ==
    [p EXCEPT ![alert_id] = [status |-> "pending", score |-> score]]

\* send_urgent_tweet: if response.status_code == 200:
\*     self.pending_tweets[alert_id] = {..., "status": "pending"}
store_alert(p, alert_id, score, ok) ==
    IF ok THEN [p EXCEPT ![alert_id] = [status |-> "pending", score |-> score]]
    ELSE p

\* send_urgent_tweet on a bot that is not enabled: it returns
\* {"sent": False, "error": "Telegram not configured"} before an id is made.
SendUrgentNotEnabled(score) ==
    /\ ~enabled
    /\ last_op' = [NoOp EXCEPT !.op = "send_urgent_tweet",
                               !.outcome = "not configured"]
    /\ UNCHANGED <<pending_tweets, category_counters, in_flight, handler,
                   awaiting, lost, restarts>>
    /\ UNCHANGED nonReplyVars

\* send_urgent_tweet up to await client.post: _generate_tweet_id has
\* incremented the counter of the category, the record is not stored yet.
SendUrgentStart(score) ==
    /\ enabled
    /\ category_counters < MaxAlerts
    /\ category_counters' = generate_tweet_id(category_counters)
    /\ in_flight' = [in_flight EXCEPT
                        ![generate_tweet_id(category_counters)] =
                            [pc |-> "posting", score |-> score,
                             sent |-> FALSE]]
    /\ UNCHANGED <<pending_tweets, handler, awaiting, lost, restarts, last_op>>
    /\ UNCHANGED nonReplyVars

\* send_urgent_tweet from the end of the POST to the exit of
\* `async with httpx.AsyncClient()`: Telegram answered 200 (ok) and the
\* record is stored, or it answered something else or the request raised.
\* The return statement, or the exception, leaves the block through
\* __aexit__, which awaits the closing of the client.
SendUrgentAnswered(alert_id, ok) ==
    /\ in_flight[alert_id].pc = "posting"
    /\ pending_tweets' = store_alert(pending_tweets, alert_id,
                                     in_flight[alert_id].score, ok)
    /\ in_flight' = [in_flight EXCEPT ![alert_id].pc = "closing",
                                      ![alert_id].sent = ok]
    /\ UNCHANGED <<category_counters, handler, awaiting, lost, restarts,
                   last_op>>
    /\ UNCHANGED nonReplyVars

\* send_urgent_tweet: the client is closed and the coroutine returns
\* {"sent": True, "alert_id": ...} or {"sent": False, "error": ...}.
SendUrgentReturns(alert_id) ==
    /\ in_flight[alert_id].pc = "closing"
    /\ in_flight' = [in_flight EXCEPT ![alert_id] = NoSend]
    /\ last_op' = [NoOp EXCEPT !.op = "send_urgent_tweet",
                               !.alert_id = alert_id,
                               !.before = pending_tweets[alert_id],
                               !.outcome = IF in_flight[alert_id].sent
                                           THEN "success" ELSE "failure"]
    /\ UNCHANGED <<pending_tweets, category_counters, handler, awaiting, lost,
                   restarts>>
    /\ UNCHANGED nonReplyVars

\* What a process_reply coroutine reports when it ends.
ReplyEnds(h, args, outcome, forwarded, prompted, built) ==
    /\ handler' = [handler EXCEPT ![h] = IdleHandler]
    /\ last_op' = [op |-> "process_reply", action |-> args.action,
                   alert_id |-> args.alert_id, user_text |-> args.user_text,
                   chat_id |-> args.chat_id, before |-> args.before,
                   outcome |-> outcome, forwarded |-> forwarded,
                   prompted |-> prompted, built |-> built]

\* TelegramBot.process_reply(action, alert_id, user_text, chat_id) from its
\* entry to its first await, or to its return when the branch has none:
\* discord_client.send_interesting returns without awaiting when no webhook
\* is configured, send_message when the bot has no base_url, and the
\* branch of BUILD without a chat id never reaches build_project.
ReplyStart(h, action, alert_id, user_text, chat_id) ==
    LET rec == pending_tweets[alert_id]
        branch == process_reply_branch(action, user_text, chat_id)
        args == [pc |-> "idle", action |-> action, alert_id |-> alert_id,
                 user_text |-> user_text, chat_id |-> chat_id, before |-> rec]
    IN /\ handler[h].pc = "idle"
       /\ CASE branch = "raise" ->
                 /\ ReplyEnds(h, args, "raised", FALSE, FALSE, FALSE)
                 /\ UNCHANGED <<pending_tweets, awaiting>>
            [] branch = "interesting" /\ settings["DISCORD_WEBHOOK_INTERESTING"] ->
                 /\ handler' = [handler EXCEPT
                                   ![h] = [args EXCEPT !.pc = "forwarding"]]
                 /\ UNCHANGED <<pending_tweets, awaiting, last_op>>
            [] branch = "interesting" /\ ~settings["DISCORD_WEBHOOK_INTERESTING"] ->
                 /\ ReplyEnds(h, args, "success", FALSE, FALSE, FALSE)
                 /\ pending_tweets' = set_status(pending_tweets, alert_id,
                                                 "interesting")
                 /\ UNCHANGED awaiting
            [] branch = "nothing" ->
                 /\ ReplyEnds(h, args, "success", FALSE, FALSE, FALSE)
                 /\ pending_tweets' = set_status(pending_tweets, alert_id,
                                                 "filtered")
                 /\ UNCHANGED awaiting
            [] branch = "requirements" /\ base_url ->
                 /\ handler' = [handler EXCEPT
                                   ![h] = [args EXCEPT !.pc = "prompting"]]
                 /\ awaiting' = awaiting \cup {alert_id}
                 /\ UNCHANGED <<pending_tweets, last_op>>
            [] branch = "requirements" /\ ~base_url ->
                 /\ ReplyEnds(h, args, "success", FALSE, FALSE, FALSE)
                 /\ awaiting' = awaiting \cup {alert_id}
                 /\ UNCHANGED pending_tweets
            [] branch = "legacy" ->
                 \* no tweet text, or the import of build_agent_enhanced
                 \* raises (line 360) and except Exception answers (377)
                 /\ ReplyEnds(h, args, "failure", FALSE, FALSE, FALSE)
                 /\ UNCHANGED <<pending_tweets, awaiting>>
            [] OTHER ->
                 /\ ReplyEnds(h, args, "failure", FALSE, FALSE, FALSE)
                 /\ UNCHANGED <<pending_tweets, awaiting>>
       /\ UNCHANGED <<category_counters, in_flight, lost, restarts>>
       /\ UNCHANGED nonReplyVars

\* process_reply, INTERESTING: await discord_client.send_interesting(...)
\* returns (True or False, it raises nothing); the status is written into
\* the record the dict holds now.
ReplyForwarded(h) ==
    /\ handler[h].pc = "forwarding"
    /\ ReplyEnds(h, handler[h], "success", TRUE, FALSE, FALSE)
    /\ pending_tweets' = set_status(pending_tweets, handler[h].alert_id,
                                    "interesting")
    /\ UNCHANGED <<category_counters, in_flight, awaiting, lost, restarts>>
    /\ UNCHANGED nonReplyVars

\* request_build_requirements: await self.send_message(...) returns.
ReplyPrompted(h) ==
    /\ handler[h].pc = "prompting"
    /\ ReplyEnds(h, handler[h], "success", FALSE, TRUE, FALSE)
    /\ UNCHANGED <<pending_tweets, category_counters, in_flight, awaiting,
                   lost, restarts>>
    /\ UNCHANGED nonReplyVars

\* The process restarts: its coroutines are gone and TelegramBot.__init__
\* runs again.
Restart ==
    /\ restarts < MaxRestarts
    /\ restarts' = restarts + 1
    /\ pending_tweets' = [a \in AlertIds |-> Absent]
    /\ category_counters' = 0
    /\ in_flight' = [a \in AlertIds |-> NoSend]
    /\ handler' = [h \in Handlers |-> IdleHandler]
    /\ lost' = lost \cup awaiting
    /\ last_op' = [NoOp EXCEPT !.op = "restart"]
    /\ UNCHANGED awaiting
    /\ UNCHANGED nonReplyVars

InitReply ==
    /\ pending_tweets = [a \in AlertIds |-> Absent]
    /\ category_counters = 0
    /\ in_flight = [a \in AlertIds |-> NoSend]
    /\ handler = [h \in Handlers |-> IdleHandler]
    /\ awaiting = {}
    /\ lost = {}
    /\ restarts = 0
    /\ last_op = NoOp

\* ------------------------ scheduler.py: _process_user and its semaphore
\* _make_request: what the request does for a response code, after the
\* retries of 429: it returns the parsed body or raises.
make_request(status) ==
    CASE status = 200 -> "json"
      [] status = 401 -> "TwitterAuthError"
      [] status = 404 -> "TwitterNotFoundError"
      [] status = 429 -> "TwitterRateLimitError"
      [] OTHER        -> "TwitterAPIError"

\* get_last_tweets: the parsed tweets, [] for TwitterNotFoundError and for
\* any other TwitterAPIError, re-raise of auth and rate-limit errors.
get_last_tweets(status, has_tweets) ==
    LET r == make_request(status)
    IN CASE r = "json" -> IF has_tweets THEN "tweets" ELSE "empty"
         [] r = "TwitterNotFoundError" -> "empty"
         [] r \in {"TwitterAuthError", "TwitterRateLimitError"} -> r
         [] OTHER -> "empty"

\* Variant of process_user_row whose rate-limit handler deactivates the
\* account.
process_user_row_strict(row, fetch) ==
    CASE fetch = "tweets" /\ row.last_tweet_id = NONE ->
             not_awaited(row, [row EXCEPT !.last_tweet_id = 1])
      [] fetch = "tweets" /\ row.last_tweet_id # NONE ->
             not_awaited(row, [row EXCEPT !.last_tweet_id = @ + 1])
      [] fetch = "TwitterNotFoundError" ->
             not_awaited(row, [row EXCEPT !.is_active = FALSE])
      [] fetch = "TwitterRateLimitError" -> [row EXCEPT !.is_active = FALSE]
      [] OTHER -> row

\* _process_user: the row of the account after the coroutine, given what
\* get_last_tweets did.  The handlers of new and of existing users and the
\* handler of TwitterNotFoundError call the database without await
\* (db.set_user_inactive: UPDATE ... SET is_active = FALSE).
process_user_row(row, fetch) ==
    CASE fetch = "tweets" /\ row.last_tweet_id = NONE ->
             not_awaited(row, [row EXCEPT !.last_tweet_id = 1])
      [] fetch = "tweets" /\ row.last_tweet_id # NONE ->
             not_awaited(row, [row EXCEPT !.last_tweet_id = @ + 1])
      [] fetch = "TwitterNotFoundError" ->
             not_awaited(row, [row EXCEPT !.is_active = FALSE])
      [] OTHER -> row

\* _process_user: how the coroutine ends.  TwitterAuthError is re-raised,
\* every other exception is logged.
process_user_outcome(fetch) ==
    IF fetch = "TwitterAuthError" THEN "TwitterAuthError" ELSE "returned"

\* _process_user(user, discord, twitter) is called for account a: the
\* coroutine waits at async with self._semaphore.
CallProcessUser(a) ==
    /\ gate_task[a] = "idle"
    /\ gate_users[a].is_active
    /\ gate_task' = [gate_task EXCEPT ![a] = "waiting"]
    /\ UNCHANGED <<gate_users, gate_resp, gate_out, permits>>
    /\ UNCHANGED nonCycleVars

\* Variant of Acquire that enters without a permit.
AcquireUnbounded(a) ==
    /\ gate_task[a] = "waiting"
    /\ gate_task' = [gate_task EXCEPT ![a] = "inside"]
    /\ permits' = permits
    /\ UNCHANGED <<gate_users, gate_resp, gate_out>>
    /\ UNCHANGED nonCycleVars

\* _process_user: async with self._semaphore is entered.
Acquire(a) ==
    /\ gate_task[a] = "waiting"
    /\ permits > 0
    /\ gate_task' = [gate_task EXCEPT ![a] = "inside"]
    /\ permits' = permits - 1
    /\ UNCHANGED <<gate_users, gate_resp, gate_out>>
    /\ UNCHANGED nonCycleVars

\* _process_user from the answer of the fetch to the end of the coroutine:
\* the handlers run and the semaphore is released.
ProcessUser(a, status, has_tweets) ==
    /\ gate_task[a] = "inside"
    /\ gate_users' = [gate_users EXCEPT
                        ![a] = process_user_row(@, get_last_tweets(status,
                                                                   has_tweets))]
    /\ gate_resp' = [gate_resp EXCEPT ![a] = status]
    /\ gate_out' = [gate_out EXCEPT
                      ![a] = process_user_outcome(get_last_tweets(status,
                                                                  has_tweets))]
    /\ gate_task' = [gate_task EXCEPT ![a] = "idle"]
    /\ permits' = permits + 1
    /\ UNCHANGED nonCycleVars

\* Accounts added without a watermark, a2 with one
\* (add_user(username, channel_id, last_tweet_id)).
InitCycle ==
    /\ gate_users = [a \in GateAccounts |->
                       [is_active |-> TRUE,
                        last_tweet_id |-> IF a = "a2" THEN 1 ELSE NONE]]
    /\ gate_task = [a \in GateAccounts |-> "idle"]
    /\ gate_resp = [a \in GateAccounts |-> 0]
    /\ gate_out = [a \in GateAccounts |-> "none"]
    /\ permits = MAX_CONCURRENT_USERS

\* -------------------------------------------------------- whatsapp_handler.py
\* the message bodies a reply carries, after strip().upper()
WaReplies ==
    {"INTERESTING", "1", "NOTHING", "2", "BUILD", "3", "HELLO",
     "NOT INTERESTING", "BUILD IT NOW"}
\* how discord.send_tweet ends: True, False, or it raises
Forwards == {"sent", "failed", "raised"}

\* whatsapp_handler.pending_tweets has no entry for the phone
NoPending == [tweet_id |-> 0, status |-> "none"]

NoReply ==
    [action |-> "none", before |-> NoPending, after |-> NoPending,
     outcome |-> "none"]

IdleWaHandler == [pc |-> "idle", before |-> NoPending, forward |-> "none"]

\* the words of _parse_action's three lists that occur in a reply
\* (x in reply is substring containment)
WordsIn(reply) ==
    CASE reply = "INTERESTING"     -> {"INTERESTING"}
      [] reply = "1"               -> {"1"}
      [] reply = "NOTHING"         -> {"NOTHING", "NO"}
      [] reply = "2"               -> {"2"}
      [] reply = "BUILD"           -> {"BUILD"}
      [] reply = "3"               -> {"3"}
      [] reply = "NOT INTERESTING" -> {"INTERESTING", "NO"}
      [] reply = "BUILD IT NOW"    -> {"BUILD", "NO"}
      [] OTHER                     -> {}

\* _parse_action: the first list with a word that occurs in the reply
parse_action(reply) ==
    IF WordsIn(reply) \cap {"INTERESTING", "YES", "SEND", "1", "DISCORD"} # {}
    THEN "INTERESTING"
    ELSE IF WordsIn(reply) \cap {"NOTHING", "NO", "SKIP", "IGNORE", "2",
                                 "BAD", "TRASH"} # {}
    THEN "NOTHING"
    ELSE IF WordsIn(reply) \cap {"BUILD", "CREATE", "MAKE", "PROJECT", "3",
                                 "REPO"} # {}
    THEN "BUILD"
    ELSE "UNKNOWN"

\* db.log_user_action: Database defines no such method, the call raises
\* AttributeError
log_user_action_raises == TRUE

\* WhatsAppActionHandler.store_pending_tweet: self.pending_tweets[phone] = {...}
store_pending_tweet(p, tweet_id) == [tweet_id |-> tweet_id, status |-> "pending"]

\* _handle_interesting after send_tweet: the record is deleted after
\* db.log_user_action, inside the try, and only when send_tweet returned True.
handle_interesting(rec, forward) ==
    IF forward = "sent" /\ ~log_user_action_raises THEN NoPending ELSE rec

\* _handle_nothing: db.log_user_action comes before the delete, outside
\* any try
handle_nothing(rec) ==
    IF log_user_action_raises THEN rec ELSE NoPending

\* UrgentNotifier._send_whatsapp_raw: all([self.twilio_sid, self.twilio_token]);
\* without them the method returns before its POST
twilio_configured ==
    settings["TWILIO_ACCOUNT_SID"] /\ settings["TWILIO_AUTH_TOKEN"]

\* cleanup_expired: the record of the phone is deleted when its age is
\* above max_age_minutes
cleanup_expired(rec, expired) == IF expired THEN NoPending ELSE rec

\* A process_reply coroutine ends: it returns a text or raises.
WaReplyEnds(h, action, before, after, outcome) ==
    /\ wa_handler' = [wa_handler EXCEPT ![h] = IdleWaHandler]
    /\ wa_last' = [action |-> action, before |-> before, after |-> after,
                   outcome |-> outcome]

WaGoto(h, pc) ==
    /\ wa_handler' = [wa_handler EXCEPT ![h].pc = pc]
    /\ UNCHANGED wa_last

\* whatsapp_handler.store_pending_tweet(phone, username, tweet, rating) for
\* the phone the alerts are sent to
StorePendingTweet(tweet_id) ==
    /\ wa_pending' = store_pending_tweet(wa_pending, tweet_id)
    /\ UNCHANGED <<wa_handler, wa_closed, wa_last>>
    /\ UNCHANGED nonWaVars

\* whatsapp_handler.cleanup_expired(max_age_minutes) with a record stored
CleanupExpired(expired) ==
    /\ wa_pending # NoPending
    /\ wa_pending' = cleanup_expired(wa_pending, expired)
    /\ UNCHANGED <<wa_handler, wa_closed, wa_last>>
    /\ UNCHANGED nonWaVars

\* _handle_interesting from the end of async with self.discord to its
\* return: the record is deleted after db.log_user_action, and only when
\* send_tweet returned True; everything else returns an error text.
InterestingEnds(h, forward) ==
    LET after == IF wa_pending = NoPending THEN NoPending
                 ELSE handle_interesting(wa_pending, forward)
    IN /\ wa_pending' = after
       /\ WaReplyEnds(h, "INTERESTING", wa_handler[h].before, after,
                      IF after = NoPending /\ wa_pending # NoPending
                      THEN "done" ELSE "error")

\* _handle_build, except Exception (285-295): the error message goes out
\* through Twilio, when Twilio is configured, and the handler returns
\* "Build failed"; the record stays.
BuildExcept(h) ==
    /\ IF twilio_configured
       THEN WaGoto(h, "reporting_error")
       ELSE WaReplyEnds(h, "BUILD", wa_handler[h].before, wa_pending, "error")
    /\ UNCHANGED wa_pending

\* _handle_build, 281-283: del self.pending_tweets[phone], a KeyError when
\* the record is gone, and the return.
BuildDelete(h) ==
    IF wa_pending = NoPending THEN BuildExcept(h)
    ELSE /\ wa_pending' = NoPending
         /\ WaReplyEnds(h, "BUILD", wa_handler[h].before, NoPending, "done")

\* _handle_build from the success message (250) on: the message goes out
\* through Twilio, when Twilio is configured; db.log_user_action follows.
BuildSuccessMessage(h) ==
    IF twilio_configured THEN WaGoto(h, "reporting") /\ UNCHANGED wa_pending
    ELSE IF log_user_action_raises THEN BuildExcept(h)
    ELSE BuildDelete(h)

\* WhatsAppActionHandler.process_reply(phone, reply_text) from its entry to
\* its first await, or to its return when the branch has none.  On a
\* closed client self.discord.send_tweet raises before it sends and
\* __aexit__ has nothing to close: INTERESTING ends in this step.  BUILD
\* awaits the Twilio POST of its first message (194), or, Twilio not
\* configured, build_project.
WhatsAppReply(h, reply) ==
    LET action == parse_action(reply)
        rec    == wa_pending
    IN /\ wa_handler[h].pc = "idle"
       /\ CASE rec = NoPending ->
                 /\ WaReplyEnds(h, action, rec, rec, "no pending")
                 /\ UNCHANGED wa_pending
            [] rec # NoPending /\ action = "INTERESTING"
                  /\ settings["DISCORD_WEBHOOK_INTERESTING"] /\ ~wa_closed ->
                 /\ wa_handler' = [wa_handler EXCEPT
                       ![h] = [pc |-> "forwarding", before |-> rec,
                               forward |-> "none"]]
                 /\ UNCHANGED <<wa_pending, wa_last>>
            [] rec # NoPending /\ action = "INTERESTING"
                  /\ settings["DISCORD_WEBHOOK_INTERESTING"] /\ wa_closed ->
                 /\ WaReplyEnds(h, action, rec,
                                handle_interesting(rec, "raised"), "error")
                 /\ wa_pending' = handle_interesting(rec, "raised")
            [] rec # NoPending /\ action = "INTERESTING"
                  /\ ~settings["DISCORD_WEBHOOK_INTERESTING"] ->
                 /\ WaReplyEnds(h, action, rec, rec, "error")
                 /\ UNCHANGED wa_pending
            [] rec # NoPending /\ action = "NOTHING" ->
                 /\ wa_pending' = handle_nothing(rec)
                 /\ WaReplyEnds(h, action, rec, handle_nothing(rec),
                                IF log_user_action_raises THEN "raised"
                                ELSE "done")
            [] rec # NoPending /\ action = "BUILD" ->
                 /\ wa_handler' = [wa_handler EXCEPT
                       ![h] = [pc |-> IF twilio_configured
                                      THEN "acknowledging" ELSE "building",
                               before |-> rec, forward |-> "none"]]
                 /\ UNCHANGED <<wa_pending, wa_last>>
            [] OTHER ->
                 /\ WaReplyEnds(h, action, rec, rec, "unknown")
                 /\ UNCHANGED wa_pending
       /\ UNCHANGED wa_closed
       /\ UNCHANGED nonWaVars

\* await self.discord.send_tweet(...) ends inside async with self.discord,
\* in _handle_interesting (124) or after a build (219), and __aexit__
\* runs: self.client.aclose() marks the client closed and suspends; on a
\* client another coroutine has closed it returns at once and the handler
\* goes on.
WaForwardEnds(h, forward) ==
    LET was == wa_handler[h]
    IN /\ was.pc \in {"forwarding", "build_forwarding"}
       /\ IF ~wa_closed
          THEN /\ wa_closed' = TRUE
               /\ wa_handler' = [wa_handler EXCEPT
                     ![h].pc = IF was.pc = "forwarding" THEN "closing"
                               ELSE "build_closing",
                     ![h].forward = forward]
               /\ UNCHANGED <<wa_pending, wa_last>>
          ELSE /\ UNCHANGED wa_closed
               /\ IF was.pc = "forwarding" THEN InterestingEnds(h, forward)
                  ELSE BuildSuccessMessage(h)
       /\ UNCHANGED nonWaVars

\* await self.client.aclose() returns and the handler leaves async with
\* self.discord.
WaClientCloses(h) ==
    LET was == wa_handler[h]
    IN /\ was.pc \in {"closing", "build_closing"}
       /\ IF was.pc = "closing" THEN InterestingEnds(h, was.forward)
          ELSE BuildSuccessMessage(h)
       /\ UNCHANGED wa_closed
       /\ UNCHANGED nonWaVars

\* await notifier._send_whatsapp_raw(...) ends: the Twilio POST returned a
\* response, or it raised.  The first message (194) is outside the try and
\* the error message (290) inside the except branch: an exception there
\* leaves process_reply.  After the success message (250)
\* db.log_user_action raises; after the failure message (275) the record
\* is deleted.
WaTwilioAnswered(h, raised) ==
    LET was == wa_handler[h]
    IN /\ was.pc \in {"acknowledging", "reporting", "reporting_failure",
                      "reporting_error"}
       /\ CASE was.pc = "acknowledging" /\ ~raised ->
                 WaGoto(h, "building") /\ UNCHANGED wa_pending
            [] was.pc = "acknowledging" /\ raised ->
                 /\ WaReplyEnds(h, "BUILD", was.before, wa_pending, "raised")
                 /\ UNCHANGED wa_pending
            [] was.pc = "reporting" /\ ~raised ->
                 IF log_user_action_raises THEN BuildExcept(h)
                 ELSE BuildDelete(h)
            [] was.pc = "reporting_failure" /\ ~raised -> BuildDelete(h)
            [] was.pc \in {"reporting", "reporting_failure"} /\ raised ->
                 BuildExcept(h)
            [] was.pc = "reporting_error" ->
                 /\ WaReplyEnds(h, "BUILD", was.before, wa_pending,
                                IF raised THEN "raised" ELSE "error")
                 /\ UNCHANGED wa_pending
       /\ UNCHANGED wa_closed
       /\ UNCHANGED nonWaVars

\* _handle_build: await enhanced_build_agent.build_project(...) ends.  A
\* successful build sends the tweet through self.discord when the
\* INTERESTING webhook is set (on a closed client send_tweet raises at
\* once and the inner except logs it), then the success message; a failed
\* one sends the failure message and deletes the record; an exception
\* goes to the except branch.
WaBuildEnds(h, build) ==
    LET was == wa_handler[h]
    IN /\ was.pc = "building"
       /\ CASE build = "success"
               /\ settings["DISCORD_WEBHOOK_INTERESTING"] /\ ~wa_closed ->
                 WaGoto(h, "build_forwarding") /\ UNCHANGED wa_pending
            [] build = "success"
               /\ ~(settings["DISCORD_WEBHOOK_INTERESTING"] /\ ~wa_closed) ->
                 BuildSuccessMessage(h)
            [] build = "failure" /\ twilio_configured ->
                 WaGoto(h, "reporting_failure") /\ UNCHANGED wa_pending
            [] build = "failure" /\ ~twilio_configured -> BuildDelete(h)
            [] OTHER -> BuildExcept(h)
       /\ UNCHANGED wa_closed
       /\ UNCHANGED nonWaVars

InitWa ==
    /\ wa_pending = NoPending
    /\ wa_handler = [h \in WaHandlers |-> IdleWaHandler]
    /\ wa_closed = FALSE
    /\ wa_last = NoReply
\* ------------------------------------------------------------ specifications
\* The environment sets none but the variables of V.
\* A variable the environment leaves unset has its default: USE_TELEGRAM
\* "true", every string "", the database SQLite.
InitSettings(V) ==
    /\ settings \in [SettingNames -> BOOLEAN]
    /\ \A n \in SettingNames \ V : settings[n] = (n = "USE_TELEGRAM")

\* The objects of the program after construction.
InitObjects ==
    /\ InitSched /\ InitLimiter /\ InitRouter /\ InitReply
    /\ InitFilter
    /\ InitCycle
    /\ InitWa

\* The program after import, in an environment that sets none but the
\* variables of V.
InitProgram(V) == InitSettings(V) /\ InitObjects

\* the scheduler over either database
Init == InitProgram({"DATABASE_URL"})

Next ==
    \/ \E t \in Tasks, a \in Accounts : StartTask(t, a)
    \/ \E t \in Tasks : FetchNewUser(t)
    \/ \E t \in Tasks, dated \in [TweetIds -> CreatedAtKinds] :
          FetchExistingUser(t, dated)
    \/ \E t \in Tasks : FetchNothing(t)
    \/ \E a \in Accounts : Post(a)
    \/ \E i \in TweetIds, a \in Accounts, c \in Channels :
          RecordSentTweet(i, a, c)
    \/ \E a \in Accounts, i \in TweetIds \cup {NONE} :
          UpdateUserLastTweet(a, i)
    \/ \E stmt \in Statements : Execute(stmt)
    \/ \E a \in Accounts : SetUserInactive(a)
    \/ \E a \in Accounts : RemoveUser(a)
    \/ \E a \in Accounts, c \in Channels, i \in TweetIds \cup {NONE} :
          AddUser(a, c, i)

Spec == Init /\ [][Next]_vars

NextCycle ==
    \/ \E a \in GateAccounts : CallProcessUser(a)
    \/ \E a \in GateAccounts : Acquire(a)
    \/ \E a \in GateAccounts, status \in FetchStatus, has_tweets \in BOOLEAN :
          ProcessUser(a, status, has_tweets)

SpecCycle == InitProgram({}) /\ [][NextCycle]_vars

NextFilter ==
    \/ /\ sel_pc = "idle"
       /\ \E tweets \in FetchedLists, last_id \in TweetIds :
             FetchReturns(tweets, last_id)
    \/ SelectNewTweets

SpecFilter == InitProgram({}) /\ [][NextFilter]_vars

NextQueue ==
    \/ \E i \in {next_id - 1, next_id}, s \in QueueScores : QueueTweet(i, s)
    \/ GetNextBatch
    \/ ClearQueue

SpecQueue == InitProgram({}) /\ [][NextQueue]_vars

\* One rating at a time: a score is parsed, routed and sent, over any
\* configuration of the tier webhooks.
NextRouter ==
    \/ /\ sender["s1"].pc = "idle"
       /\ \E k \in ResponseKinds, r \in RawScores \cup {NoScore} :
             ParseResponse(k, r)
       /\ UNCHANGED <<webhook_gone, posted_after_404>>
    \/ RouteTweet /\ UNCHANGED <<webhook_gone, posted_after_404>>
    \/ /\ last_rating # NoRating
       /\ SendTweetStart("s1", last_rating.score)
       /\ UNCHANGED <<webhook_gone, posted_after_404>>
    \/ /\ \E answer \in PostAnswers : SendTweetAnswered("s1", answer)
       /\ UNCHANGED <<webhook_gone, posted_after_404>>
    \/ SendTweetWakes("s1") /\ UNCHANGED <<webhook_gone, posted_after_404>>

SpecRouter ==
    /\ InitProgram({"DISCORD_WEBHOOK_TIER2", "DISCORD_WEBHOOK_TIER3",
                     "DISCORD_WEBHOOK_TIER4"})
    /\ [][NextRouter]_vars

\* The sends of the chat channels alone, two at a time, with the record of
\* the webhooks that answered 404.
NextWebhook ==
    \/ \E s \in Senders, score \in WebhookScores :
          SendTweetStart(s, score) /\ NoteWebhook
    \/ \E s \in Senders, answer \in PostAnswers :
          SendTweetAnswered(s, answer) /\ NoteWebhook
    \/ \E s \in Senders : SendTweetWakes(s) /\ NoteWebhook
    \/ TieredAexit /\ NoteWebhook

SpecWebhook ==
    /\ InitProgram({"DISCORD_WEBHOOK_TIER2", "DISCORD_WEBHOOK_TIER3"})
    /\ [][NextWebhook]_vars

NextReply ==
    \/ \E s \in AlertScores : SendUrgentNotEnabled(s)
    \/ /\ category_counters < MaxRaced
       /\ \E s \in AlertScores : SendUrgentStart(s)
    \/ \E a \in AlertIds, ok \in BOOLEAN : SendUrgentAnswered(a, ok)
    \/ \E a \in AlertIds : SendUrgentReturns(a)
    \/ \E h \in Handlers, act \in Actions, a \in AlertIds, r \in ReplyArgs :
          ReplyStart(h, act, a, r.user_text, r.chat_id)
    \/ \E h \in Handlers : ReplyForwarded(h)
    \/ \E h \in Handlers : ReplyPrompted(h)
    \/ Restart

SpecReply ==
    /\ InitProgram({"USE_TELEGRAM", "TELEGRAM_BOT_TOKEN", "TELEGRAM_CHAT_ID",
                     "DISCORD_WEBHOOK_INTERESTING"})
    /\ [][NextReply]_vars

\* The alerts of one process of the bot, with one reply at a time.
NextAlerts ==
    \/ \E s \in AlertScores : SendUrgentNotEnabled(s)
    \/ \E s \in AlertScores : SendUrgentStart(s)
    \/ \E a \in AlertIds, ok \in BOOLEAN : SendUrgentAnswered(a, ok)
    \/ \E a \in AlertIds : SendUrgentReturns(a)
    \/ \E act \in Actions, a \in AlertIds, r \in ReplyArgs :
          ReplyStart("h1", act, a, r.user_text, r.chat_id)
    \/ ReplyForwarded("h1")
    \/ ReplyPrompted("h1")
    \/ Restart

SpecAlerts ==
    /\ InitProgram({"USE_TELEGRAM", "TELEGRAM_BOT_TOKEN", "TELEGRAM_CHAT_ID",
                     "DISCORD_WEBHOOK_INTERESTING"})
    /\ [][NextAlerts]_vars

NextWhatsApp ==
    \/ \E i \in 1..MaxUrgent : StorePendingTweet(i)
    \/ \E expired \in BOOLEAN : CleanupExpired(expired)
    \/ \E h \in WaHandlers, reply \in WaReplies : WhatsAppReply(h, reply)
    \/ \E h \in WaHandlers, forward \in Forwards : WaForwardEnds(h, forward)
    \/ \E h \in WaHandlers : WaClientCloses(h)
    \/ \E h \in WaHandlers, raised \in BOOLEAN : WaTwilioAnswered(h, raised)
    \/ \E h \in WaHandlers, build \in BuildResults : WaBuildEnds(h, build)

SpecWhatsApp ==
    /\ InitProgram({"DISCORD_WEBHOOK_INTERESTING", "TWILIO_ACCOUNT_SID",
                     "TWILIO_AUTH_TOKEN"})
    /\ [][NextWhatsApp]_vars
\* ------------------------------------------------------------------ claims

\* C1: the stored watermark (last_tweet_id) of an account never decreases,
\* whatever the order in which watermark writes arrive: a write of a lower
\* value leaves the stored value as it was.
WatermarkNeverDecreases ==
    [][\A a \in DOMAIN users, i \in TweetIds :
          UpdateUserLastTweet(a, i) =>
              users'[a].last_tweet_id >= users[a].last_tweet_id]_vars

\* C2: the delivery ledger holds at most one record per (tweet id,
\* channel id) pair, also when the same tweet is recorded twice.
LedgerUnique ==
    \A i, j \in 1..Len(sent_tweets) :
        (sent_tweets[i].tweet_id = sent_tweets[j].tweet_id
         /\ sent_tweets[i].channel_id = sent_tweets[j].channel_id) => i = j

\* A pair that is in the ledger was recorded a second time, the ledger
\* holding another tweet as well.
LedgerUniqueWitness ==
    /\ db_last.op = "record_sent_tweet"
    /\ db_last.raised
    /\ Len(sent_tweets) >= 2

\* C4: every score in 1..10 gets exactly one of the four tiers, every
\* tier's range is non-empty and contiguous and the ranges partition 1..10,
\* whether the tier is the sender's or the one the routing thresholds give;
\* send_tweet reports the tier of the score it was given.
TierPartition ==
    /\ \A s \in Scores : get_tier_from_score(s) \in Tiers
    /\ \A t \in Tiers : \E s \in Scores : get_tier_from_score(s) = t
    /\ \A s1, s2, s3 \in Scores :
          (s1 < s2 /\ s2 < s3 /\ get_tier_from_score(s1) = get_tier_from_score(s3))
              => get_tier_from_score(s2) = get_tier_from_score(s1)
    /\ last_result.tier # 0 =>
          last_result.tier = get_tier_from_score(last_result.score)
    /\ \A s \in Scores : ChannelOf(s) \in Tiers
    /\ \A t \in Tiers : \E s \in Scores : ChannelOf(s) = t
    /\ \A s1, s2, s3 \in Scores :
          (s1 < s2 /\ s2 < s3 /\ ChannelOf(s1) = ChannelOf(s3))
              => ChannelOf(s2) = ChannelOf(s1)

\* A JSON answer was parsed and routed to the urgent branch, and send_tweet
\* delivered a tweet of the top score to the top tier.
TierPartitionWitness ==
    /\ last_rating.kind = "json"
    /\ last_route.route = "urgent"
    /\ last_result.sent
    /\ last_result.score = MaxScore
    /\ last_result.tier = 4


\* C5: the urgent queue never holds more than MAX_QUEUE_SIZE entries.
QueueBounded == Len(queue) <= MAX_QUEUE_SIZE

\* queue_tweet was called on a full queue and trimmed it.
QueueBoundedWitness ==
    /\ evicted # NoEviction
    /\ Len(evicted.before) = MAX_QUEUE_SIZE + 1
    /\ Len(queue) = MAX_QUEUE_SIZE

\* C6 as stated: the entry queue_tweet evicts has the lowest score in the
\* queue at that instant, and is the oldest of the entries with that score.
EvictsLowestScore ==
    evicted # NoEviction =>
        \E k \in 1..Len(evicted.before) :
            /\ evicted.before[k] = evicted.removed
            /\ \A i \in 1..Len(evicted.before) :
                  evicted.before[i].score >= evicted.removed.score
            /\ \A i \in 1..(k - 1) :
                  evicted.before[i].score > evicted.removed.score

\* C7: once an alert is interesting, filtered or built, every later reply
\* for it is rejected, leaves its record unchanged and triggers no forward,
\* prompt or build.
TerminalAbsorbing ==
    (last_op.op = "process_reply"
     /\ last_op.before.status \in {"interesting", "filtered", "built"}) =>
        /\ last_op.outcome # "success"
        /\ pending_tweets[last_op.alert_id] = last_op.before
        /\ ~last_op.forwarded /\ ~last_op.prompted /\ ~last_op.built

UnknownAlertRejected ==
    (last_op.op = "process_reply" /\ last_op.before = Absent) =>
        /\ last_op.outcome # "success"
        /\ pending_tweets[last_op.alert_id] = Absent
        /\ ~last_op.forwarded /\ ~last_op.prompted /\ ~last_op.built

\* C10: after a restart, a free-text requirements reply for an alert that
\* was awaiting requirements still ends in a build that succeeded or failed.
RestartResolves ==
    (last_op.op = "process_reply" /\ last_op.alert_id \in lost
     /\ last_op.user_text /\ last_op.chat_id) =>
        last_op.outcome \in {"success", "failure"} /\ last_op.built

\* C12: processing an account without a watermark whose fetch returned
\* tweets stores the highest fetched id as the watermark and queues
\* nothing and writes nothing to the ledger.
NewUserBaseline ==
    [][\A t \in Tasks :
          (FetchNewUser(t) /\ task[t].username \in DOMAIN users) =>
              /\ users'[task[t].username].last_tweet_id
                    = timeline[task[t].username]
              /\ sent_tweets' = sent_tweets
              /\ queue' = queue]_vars

\* C13: when the processing of an account that had a watermark ends, the
\* stored watermark is the highest fetched id above the old one.
WatermarkAdvancesDespiteFailures ==
    [][\A t \in Tasks :
          (/\ \E dated \in [TweetIds -> CreatedAtKinds] : FetchExistingUser(t, dated)
           /\ task[t].username \in DOMAIN users
           /\ timeline[task[t].username] > task[t].last_id) =>
              users'[task[t].username].last_tweet_id
                  = timeline[task[t].username]]_vars

\* C16: the entries taken from the urgent queue for delivery are those with
\* the highest scores, in descending score order, equal scores in insertion
\* order.
DequeuesMaxScoreFirst ==
    last_batch # <<>> =>
        /\ \A i \in 1..Len(last_batch), j \in 1..Len(queue) :
              last_batch[i].score >= queue[j].score
        /\ \A i, j \in 1..Len(last_batch) :
              i < j => last_batch[i].score >= last_batch[j].score

\* C18: a pending record is created exactly when an urgent delivery of the
\* bot is confirmed: a send Telegram answers with 200 stores a new pending
\* record under the alert id of the send, with the score of the send, and
\* leaves the other records; a send that failed or was skipped stores
\* none; no other step makes a record pending; and the send reports
\* success exactly when it stored its record.
PendingCreatedOnDelivery ==
    [][/\ \A a \in AlertIds :
             /\ SendUrgentAnswered(a, TRUE) =>
                   /\ pending_tweets[a] = Absent
                   /\ pending_tweets' =
                         [pending_tweets EXCEPT
                             ![a] = [status |-> "pending",
                                     score |-> in_flight[a].score]]
             /\ SendUrgentAnswered(a, FALSE) =>
                   pending_tweets' = pending_tweets
             /\ (pending_tweets'[a].status = "pending"
                 /\ pending_tweets[a].status # "pending") =>
                   /\ in_flight[a].pc = "posting"
                   /\ in_flight'[a].pc = "closing"
                   /\ in_flight'[a].sent
             /\ SendUrgentReturns(a) =>
                   /\ pending_tweets' = pending_tweets
                   /\ last_op'.outcome = "success" <=> in_flight[a].sent
       /\ (\E s \in AlertScores : SendUrgentNotEnabled(s)) =>
             pending_tweets' = pending_tweets]_vars

\* One process confirmed two sends: the first has returned and its record
\* has been answered since, the record of the second is pending and its
\* coroutine has not returned yet.
PendingCreatedOnDeliveryWitness ==
    /\ category_counters = 2
    /\ pending_tweets[1].status = "filtered"
    /\ in_flight[1] = NoSend
    /\ pending_tweets[2].status = "pending"
    /\ in_flight[2].pc = "closing"
    /\ in_flight[2].sent

\* C19: writing a delivery record for a (tweet id, channel id) pair that is
\* already in the ledger is a benign no-op: record_sent_tweet returns
\* without raising.
DuplicateWriteBenign ==
    db_last.op = "record_sent_tweet" => ~db_last.raised

\* C21: for an account with a watermark, the tweets a cycle selects for
\* scoring and delivery are exactly the fetched tweets whose id is greater than
\* the watermark, each once, in ascending created_at order.
SelectsNewerInOrder ==
    sel_pc \in {"selected", "raised"} =>
        /\ \A t \in FetchedTweets :
              Cardinality({i \in 1..Len(selected) : selected[i] = t})
                 = IF t.id > sel_last_id
                   THEN Cardinality({i \in 1..Len(fetched) : fetched[i] = t})
                   ELSE 0
        /\ \A i, j \in 1..Len(selected) :
              i < j => selected[i].created_at.at <= selected[j].created_at.at

\* C22: at every instant of a cycle at most MAX_CONCURRENT_USERS account
\* tasks are inside their fetch/score/deliver section.
GateBounded ==
    Cardinality({a \in GateAccounts : gate_task[a] = "inside"})
        <= MAX_CONCURRENT_USERS

\* The gate is full while another account of the cycle waits for it.
GateBoundedWitness ==
    /\ Cardinality({a \in GateAccounts : gate_task[a] = "inside"})
          = MAX_CONCURRENT_USERS
    /\ permits = 0
    /\ \E a \in GateAccounts : gate_task[a] = "waiting"

\* C23: a rate-limit failure of one account's fetch ends only that
\* account's processing: no row changes (its watermark included), the
\* ledger is as it was, the coroutine returns instead of raising, the
\* coroutines of the other accounts are where they were, and the account
\* stays active, so that it is fetched again.
RateLimitIsolated ==
    [][\A a \in GateAccounts :
          (gate_task[a] = "inside" /\ gate_task'[a] = "idle"
           /\ gate_resp'[a] = 429)
          => /\ gate_users' = gate_users
             /\ sent_tweets' = sent_tweets
             /\ gate_out'[a] = "returned"
             /\ gate_users'[a].is_active
             /\ \A b \in GateAccounts \ {a} :
                   /\ gate_task'[b] = gate_task[b]
                   /\ gate_resp'[b] = gate_resp[b]
                   /\ gate_out'[b] = gate_out[b]]_vars

\* An account was rate limited and is being processed again, while the
\* fetch of another account was answered and a third account waits.
RateLimitIsolatedWitness ==
    \E a, b, c \in GateAccounts :
        /\ gate_resp[a] = 429 /\ gate_out[a] = "returned"
        /\ gate_task[a] = "inside"
        /\ gate_resp[b] = 200 /\ gate_task[b] = "inside"
        /\ gate_task[c] = "waiting"

\* C24: when the fetch of an account answers 404 (not found), the account
\* is marked inactive by the coroutine that fetched it.
NotFoundDeactivates ==
    [][\A a \in GateAccounts :
          (gate_task[a] = "inside" /\ gate_task'[a] = "idle"
           /\ gate_resp'[a] = 404)
          => ~gate_users'[a].is_active]_vars

\* C25: after a chat-channel send answered 404 (webhook not found) the
\* destination is deactivated: no later tweet is posted to that webhook.
WebhookNotFoundDeactivates ==
    posted_after_404 = {}

\* C29: a BUILD reply for a pending alert sends the requirements prompt and
\* leaves the alert awaiting requirements; the build is not run by it.
BuildWaitsForRequirements ==
    (last_op.op = "process_reply" /\ last_op.action = "BUILD"
     /\ ~last_op.user_text /\ last_op.before.status = "pending") =>
        /\ last_op.prompted
        /\ last_op.alert_id \in awaiting
        /\ ~last_op.built

\* C30: an INTERESTING reply for a pending alert leaves the alert out of
\* pending, whether the forward to the interesting channel is sent, fails
\* or raises (the channel being configured).
InterestingReplyTerminal ==
    (/\ wa_last.action = "INTERESTING"
     /\ wa_last.before.status = "pending"
     /\ settings["DISCORD_WEBHOOK_INTERESTING"]) =>
        wa_last.after.status # "pending"

\* C31: a requirements reply for an alert that is awaiting requirements runs
\* the build and ends with the build's result reported: the reply returns
\* success or failure, it does not raise.
RequirementsReplyResolves ==
    (last_op.op = "process_reply" /\ last_op.user_text /\ last_op.chat_id
     /\ last_op.alert_id \in awaiting /\ last_op.alert_id \notin lost
     /\ last_op.before.status = "pending") =>
        /\ last_op.outcome \in {"success", "failure"}
        /\ last_op.built

\* C34: storing the record of a newly delivered urgent tweet leaves a record
\* that is still pending as it was.
PendingNotOverwritten ==
    [][\A i \in 1..MaxUrgent :
          (StorePendingTweet(i) /\ wa_pending.status = "pending") =>
              wa_pending' = wa_pending]_vars

\* C37: the alert id send_urgent_tweet issues is the key of no record and
\* of no send that is under way, restarts included.
AlertIdsFresh ==
    [][\A s \in AlertScores :
          SendUrgentStart(s) =>
              /\ pending_tweets[category_counters'] = Absent
              /\ in_flight[category_counters'].pc = "none"]_vars

\* After a restart the bot issued a second id while the record of the
\* first was pending.
AlertIdsFreshWitness ==
    /\ restarts >= 1
    /\ category_counters = 2
    /\ pending_tweets[1].status = "pending"
    /\ in_flight[2].pc = "posting"

\* C38: no two entries of the urgent queue have the same tweet id, and
\* queue_tweet returns -1 exactly for a tweet id that is already queued and
\* then leaves the queue as it was.
NoDuplicateQueued ==
    /\ [](\A i, j \in 1..Len(queue) :
             queue[i].tweet_id = queue[j].tweet_id => i = j)
    /\ [][\A id \in 1..MaxQueued, s \in QueueScores :
             QueueTweet(id, s) =>
                /\ position' = -1 <=>
                      \E i \in 1..Len(queue) : queue[i].tweet_id = id
                /\ position' = -1 => queue' = queue]_vars

NoDuplicateQueuedWitness ==
    /\ position = -1
    /\ Len(queue) >= 2

\* C39: the dispatcher's thresholds and the sender's tiers agree: a score
\* the dispatcher routes to the chat channels gets a delivery tier from the
\* sender (it is not filtered there), and a score the dispatcher filters is
\* one the sender filters too.
RoutingAgreesWithTiers ==
    /\ last_route.route = "discord" =>
          get_tier_from_score(last_route.score) \in {2, 3}
    /\ last_route.route = "filter" =>
          get_tier_from_score(last_route.score) = 1

====
